---- MODULE Spec2Model ----
(***************************************************************************)
(* Model of lib/utils/encoding.js: the fixed-width 64-bit codec, the       *)
(* compact-size varint (readVarint / writeVarint) and the continuation-bit *)
(* varint (readVarint2 / writeVarint2), with their bn.js twins.            *)
(*                                                                         *)
(* Numbers.  TLC integers are 32 bits wide, the codec works on 53- and     *)
(* 64-bit quantities, so a number (a javascript Number holding an integer  *)
(* or the magnitude of a BN) is a little-endian sequence of NLimbs 16-bit  *)
(* limbs, and a signed number is a record [neg, mag].  A 32-bit word (the  *)
(* hi / lo halves of the source) is a pair <<low 16 bits, high 16 bits>>.  *)
(* A buffer is a sequence of bytes; the source's data[i] is data[i + 1].   *)
(***************************************************************************)
EXTENDS Integers, Sequences, FiniteSets

VARIABLES dst,   \* the caller's buffer (data / dst of the source)
          num,   \* the caller's value argument (a Number, or a BN object)
          off,   \* the caller's offset argument
          ret,   \* what the last call returned, or that it threw
          hist   \* the calls made so far, in order

vars == <<dst, num, off, ret, hist>>

----------------------------------------------------------------------------
(* Bounds of the model. *)

NLimbs == 5       \* limbs per number: 80 bits
MaxOff == 1       \* offsets 0..MaxOff
Slack == 1        \* bytes a full-size buffer has beyond the longest encoding
Window == 3       \* half-width of the dense windows of Varint-B inputs
MaxBytes == 10    \* longest buffer handed to the Varint-B decoders
Stride == 997     \* distance between the sampled Varint-B inputs
Samples == 1003   \* number of sampled Varint-B inputs

LimbBase == 256 * 256

----------------------------------------------------------------------------
(* Arithmetic on limb sequences: what the source does with javascript      *)
(* Numbers below 2^53 (where they are exact) and with bn.js values.        *)

Zero == [i \in 1..NLimbs |-> 0]

\* A small non-negative integer (below 2^31) as a number.
FromInt(n) ==
    [i \in 1..NLimbs |->
        IF i = 1 THEN n % LimbBase ELSE IF i = 2 THEN n \div LimbBase ELSE 0]

\* Limbs ls (least significant first) as a number; missing limbs are zero.
FromLimbs(ls) == [i \in 1..NLimbs |-> IF i <= Len(ls) THEN ls[i] ELSE 0]

Pos(m) == [neg |-> FALSE, mag |-> m]
Neg(m) == [neg |-> TRUE, mag |-> m]

RECURSIVE CmpFrom(_, _, _)
CmpFrom(a, b, i) ==
    IF i = 0 THEN 0
    ELSE IF a[i] < b[i] THEN -1
    ELSE IF a[i] > b[i] THEN 1
    ELSE CmpFrom(a, b, i - 1)

\* -1, 0, 1 as a < b, a = b, a > b.
Cmp(a, b) == CmpFrom(a, b, NLimbs)

RECURSIVE AddFrom(_, _, _)
AddFrom(a, c, i) ==
    IF i > NLimbs THEN <<>>
    ELSE <<(a[i] + c) % LimbBase>> \o AddFrom(a, (a[i] + c) \div LimbBase, i + 1)

\* a + k for a small k >= 0.
AddSmall(a, k) == AddFrom(a, k, 1)

RECURSIVE SubFrom(_, _, _)
SubFrom(a, b, i) ==
    IF i > NLimbs THEN <<>>
    ELSE IF a[i] >= b THEN <<a[i] - b>> \o SubFrom(a, 0, i + 1)
    ELSE <<a[i] + LimbBase - b>> \o SubFrom(a, 1, i + 1)

\* a - k for a small k with 0 <= k <= a.
SubSmall(a, k) == SubFrom(a, k, 1)

RECURSIVE MulAddFrom(_, _, _)
MulAddFrom(a, c, i) ==
    IF i > NLimbs THEN <<>>
    ELSE <<(a[i] * 128 + c) % LimbBase>>
         \o MulAddFrom(a, (a[i] * 128 + c) \div LimbBase, i + 1)

\* a * 0x80 + c: `num * 0x80 + (ch & 0x7f)`, and bn.js iushln(7).iaddn(c).
Shl7Add(a, c) == MulAddFrom(a, c, 1)

\* floor(a / 0x80): `(num - num % 0x80) / 0x80`, and bn.js iushrn(7).
Shr7(a) ==
    [i \in 1..NLimbs |->
        (a[i] \div 128) + (IF i < NLimbs THEN (a[i + 1] % 128) * 512 ELSE 0)]

\* a & 0x7f (the low seven bits; bn.js words[0] & 0x7f).
Low7(a) == a[1] % 128

RECURSIVE BitsOf(_)
BitsOf(x) == IF x = 0 THEN 0 ELSE 1 + BitsOf(x \div 2)

RECURSIVE BitLengthFrom(_, _)
BitLengthFrom(a, i) ==
    IF i = 0 THEN 0
    ELSE IF a[i] # 0 THEN 16 * (i - 1) + BitsOf(a[i])
    ELSE BitLengthFrom(a, i - 1)

\* bn.js bitLength(): the number of bits of the magnitude, 0 for zero.
bitLength(a) == BitLengthFrom(a, NLimbs)

----------------------------------------------------------------------------
(* Program constants. *)

\* 0x1fffffffffffff = 2^53 - 1
MAX_SAFE_INTEGER == FromLimbs(<<\Hffff, \Hffff, \Hffff, \H1f>>)

\* 0xffffffff
U32_MAX == FromLimbs(<<\Hffff, \Hffff>>)

\* 0xffffffffffffffff
U64_MAX == FromLimbs(<<\Hffff, \Hffff, \Hffff, \Hffff>>)

\* 0x3fffffffffff, the pre-multiplication limit of the Varint-B decoders
VARINT2_LIMIT == FromLimbs(<<\Hffff, \Hffff, \H3fff>>)

\* An argument the caller left out.
Undefined == -1

----------------------------------------------------------------------------
(* Buffers and results. *)

At(data, i) == data[i + 1]

\* dst[i] = b on a Buffer: the byte is stored modulo 256, and a store at an
\* index outside the buffer is dropped without an error.
Store(data, i, b) ==
    IF i >= 0 /\ i < Len(data) THEN [data EXCEPT ![i + 1] = b % 256] ELSE data

RECURSIVE StoreAll(_, _, _)
\* dst[off++] = bytes[1]; dst[off++] = bytes[2]; ...
StoreAll(data, i, bytes) ==
    IF bytes = <<>> THEN data
    ELSE StoreAll(Store(data, i, Head(bytes)), i + 1, Tail(bytes))

\* A call that threw: it returns nothing.
Fault == [fault |-> TRUE, off |-> 0, size |-> 0, value |-> Pos(Zero)]

\* A writer's return value: the offset after what it wrote.
RetOff(o) == [fault |-> FALSE, off |-> o, size |-> 0, value |-> Pos(Zero)]

\* A number returned by a fixed-width reader or by a size function.
RetValue(v) == [fault |-> FALSE, off |-> 0, size |-> 0, value |-> v]

\* new Varint(size, value)
Varint(size, value) == [fault |-> FALSE, off |-> 0, size |-> size, value |-> value]

NoRet == RetOff(0)

----------------------------------------------------------------------------
(* 32-bit words. *)

readUInt32LE(data, o) ==
    << At(data, o) + 256 * At(data, o + 1), At(data, o + 2) + 256 * At(data, o + 3) >>

readUInt32BE(data, o) ==
    << At(data, o + 3) + 256 * At(data, o + 2), At(data, o + 1) + 256 * At(data, o) >>

\* ~w >>> 0
Not32(w) == << (LimbBase - 1) - w[1], (LimbBase - 1) - w[2] >>

\* w &= 0x1fffff
Mask21(w) == << w[1], w[2] % 32 >>

\* (w & 0xffe00000) === 0
Fits21(w) == w[2] \div 32 = 0

\* w & 0x80000000
TopBit(w) == w[2] \div 32768 = 1

\* hi * 0x100000000 + lo
Join64(hi, lo) == FromLimbs(<< lo[1], lo[2], hi[1], hi[2] >>)

\* w & 0xff, (w >> 8) & 0xff, (w >> 16) & 0xff, w >>> 24
BytesLE(w) == << w[1] % 256, w[1] \div 256, w[2] % 256, w[2] \div 256 >>

\* w >>> 24, (w >> 16) & 0xff, (w >> 8) & 0xff, w & 0xff
BytesBE(w) == << w[2] \div 256, w[2] % 256, w[1] \div 256, w[1] % 256 >>

----------------------------------------------------------------------------
(* Fixed64, native. *)

_readU64(data, o, force53, be) ==
    LET hi0 == IF be THEN readUInt32BE(data, o) ELSE readUInt32LE(data, o + 4)
        lo  == IF be THEN readUInt32BE(data, o + 4) ELSE readUInt32LE(data, o)
        hi  == IF force53 THEN Mask21(hi0) ELSE hi0
    IN  IF ~Fits21(hi) THEN Fault
        ELSE RetValue(Pos(Join64(hi, lo)))

readU64(data, o) == _readU64(data, o, FALSE, FALSE)

readU64BE(data, o) == _readU64(data, o, FALSE, TRUE)

_read64(data, o, force53, be) ==
    LET hi0 == IF be THEN readUInt32BE(data, o) ELSE readUInt32LE(data, o + 4)
        lo0 == IF be THEN readUInt32BE(data, o + 4) ELSE readUInt32LE(data, o)
    IN  IF TopBit(hi0)
        THEN LET hi1 == Not32(hi0)
                 lo  == Not32(lo0)
                 hi  == IF force53 THEN Mask21(hi1) ELSE hi1
             IN  IF ~Fits21(hi) THEN Fault
                 ELSE RetValue(Neg(AddSmall(Join64(hi, lo), 1)))
        ELSE LET hi == IF force53 THEN Mask21(hi0) ELSE hi0
             IN  IF ~Fits21(hi) THEN Fault
                 ELSE RetValue(Pos(Join64(hi, lo0)))

read64(data, o) == _read64(data, o, FALSE, FALSE)

read64BE(data, o) == _read64(data, o, FALSE, TRUE)

\* A writer's outcome: the buffer afterwards and what the call returned.
Wrote(data, r) == [dst |-> data, ret |-> r]

\* _write64 without `num -= 1` on the negative branch.
_write64_noDecrement(data, n, o, be) ==
    LET negative == n.neg
        m  == n.mag
        lo0 == << m[1], m[2] >>
        hi0 == << m[3], m[4] >>
        lo == IF negative THEN Not32(lo0) ELSE lo0
        hi == IF negative THEN Not32(hi0) ELSE hi0
    IN  IF Cmp(m, MAX_SAFE_INTEGER) > 0 THEN Wrote(data, Fault)
        ELSE IF be
        THEN Wrote(StoreAll(data, o, BytesBE(hi) \o BytesBE(lo)), RetOff(o + 8))
        ELSE Wrote(StoreAll(data, o, BytesLE(lo) \o BytesLE(hi)), RetOff(o + 8))

_write64(data, n, o, be) ==
    LET negative == n.neg
        m  == IF negative THEN SubSmall(n.mag, 1) ELSE n.mag
        lo0 == << m[1], m[2] >>
        hi0 == << m[3], m[4] >>
        lo == IF negative THEN Not32(lo0) ELSE lo0
        hi == IF negative THEN Not32(hi0) ELSE hi0
    IN  IF Cmp(m, MAX_SAFE_INTEGER) > 0 THEN Wrote(data, Fault)
        ELSE IF be
        THEN Wrote(StoreAll(data, o, BytesBE(hi) \o BytesBE(lo)), RetOff(o + 8))
        ELSE Wrote(StoreAll(data, o, BytesLE(lo) \o BytesLE(hi)), RetOff(o + 8))

writeU64(data, n, o) == _write64(data, n, o, FALSE)

writeU64BE(data, n, o) == _write64(data, n, o, TRUE)

write64(data, n, o) == _write64(data, n, o, FALSE)

write64BE(data, n, o) == _write64(data, n, o, TRUE)

----------------------------------------------------------------------------
(* Fixed64, bn.js. *)

RECURSIVE LimbsOfBytes(_)
LimbsOfBytes(bytes) ==
    IF bytes = <<>> THEN <<>>
    ELSE IF Len(bytes) = 1 THEN << bytes[1] >>
    ELSE << bytes[1] + 256 * bytes[2] >> \o LimbsOfBytes(Tail(Tail(bytes)))

\* data.slice(o, o + 8): the bytes of the window that exist.
Slice8(data, o) ==
    LET hiIdx == IF o + 8 <= Len(data) THEN o + 8 ELSE Len(data)
    IN  IF o >= hiIdx THEN <<>> ELSE SubSeq(data, o + 1, hiIdx)

\* new BN(data.slice(o, o + 8), 'le')
readU64BN(data, o) == Pos(FromLimbs(LimbsOfBytes(Slice8(data, o))))

\* The number of 26-bit words bn.js holds a magnitude in (at least one).
WordsBN(m) == IF m = Zero THEN 1 ELSE (bitLength(m) + 25) \div 26

\* The low 64 bits of a magnitude.
Mask64(m) == [i \in 1..NLimbs |-> IF i <= 4 THEN m[i] ELSE 0]

\* inotn(64): the low 64 bits inverted (of a magnitude below 2^64).
Not64(m) == [i \in 1..NLimbs |-> IF i <= 4 THEN (LimbBase - 1) - m[i] ELSE 0]

\* num.uand(U64_MAX): the low 64 bits.  bn.js clones the operand with more
\* words and ands the other into it, so the result keeps the sign of num
\* only when num has more words than U64_MAX; a zero result is never negative.
Uand64(n) ==
    [neg |-> n.neg /\ WordsBN(n.mag) > WordsBN(U64_MAX) /\ Mask64(n.mag) # Zero,
     mag |-> Mask64(n.mag)]

\* n is a BN; uand and neg return new objects, the caller's BN is not changed.
_write64BN(data, n, o, be) ==
    IF bitLength(n.mag) <= 53 THEN _write64(data, n, o, be)
    ELSE LET n1 == IF bitLength(n.mag) > 64 THEN Uand64(n) ELSE n
             m  == IF n1.neg THEN AddSmall(Not64(n1.mag), 1) ELSE n1.mag
             lo == << m[1], m[2] >>
             hi == << m[3], m[4] >>
         IN  IF be
             THEN Wrote(StoreAll(data, o, BytesBE(hi) \o BytesBE(lo)), RetOff(o + 8))
             ELSE Wrote(StoreAll(data, o, BytesLE(lo) \o BytesLE(hi)), RetOff(o + 8))

writeU64BN(data, n, o) == _write64BN(data, n, o, FALSE)

writeU64BEBN(data, n, o) == _write64BN(data, n, o, TRUE)

write64BN(data, n, o) == _write64BN(data, n, o, FALSE)

write64BEBN(data, n, o) == _write64BN(data, n, o, TRUE)

----------------------------------------------------------------------------
(* Varint-A, the compact-size encoding. *)

\* readVarint accepting a 0xfe payload of exactly 0xffff.
readVarint_lax32(data, o) ==
    IF ~(o < Len(data)) THEN Fault
    ELSE IF At(data, o) = \Hff
    THEN IF ~(o + 9 <= Len(data)) THEN Fault
         ELSE LET r == readU64(data, o + 1)
              IN  IF r.fault THEN Fault
                  ELSE IF ~(Cmp(r.value.mag, U32_MAX) > 0) THEN Fault
                  ELSE Varint(9, r.value)
    ELSE IF At(data, o) = \Hfe
    THEN IF ~(o + 5 <= Len(data)) THEN Fault
         ELSE LET value == FromLimbs(readUInt32LE(data, o + 1))
              IN  IF ~(Cmp(value, FromInt(\Hffff)) >= 0) THEN Fault
                  ELSE Varint(5, Pos(value))
    ELSE IF At(data, o) = \Hfd
    THEN IF ~(o + 3 <= Len(data)) THEN Fault
         ELSE LET value == At(data, o + 1) + 256 * At(data, o + 2)
              IN  IF ~(value >= \Hfd) THEN Fault
                  ELSE Varint(3, Pos(FromInt(value)))
    ELSE Varint(1, Pos(FromInt(At(data, o))))

readVarint(data, o) ==
    IF ~(o < Len(data)) THEN Fault
    ELSE IF At(data, o) = \Hff
    THEN IF ~(o + 9 <= Len(data)) THEN Fault
         ELSE LET r == readU64(data, o + 1)
              IN  IF r.fault THEN Fault
                  ELSE IF ~(Cmp(r.value.mag, U32_MAX) > 0) THEN Fault
                  ELSE Varint(9, r.value)
    ELSE IF At(data, o) = \Hfe
    THEN IF ~(o + 5 <= Len(data)) THEN Fault
         ELSE LET value == FromLimbs(readUInt32LE(data, o + 1))
              IN  IF ~(Cmp(value, FromInt(\Hffff)) > 0) THEN Fault
                  ELSE Varint(5, Pos(value))
    ELSE IF At(data, o) = \Hfd
    THEN IF ~(o + 3 <= Len(data)) THEN Fault
         ELSE LET value == At(data, o + 1) + 256 * At(data, o + 2)
              IN  IF ~(value >= \Hfd) THEN Fault
                  ELSE Varint(3, Pos(FromInt(value)))
    ELSE Varint(1, Pos(FromInt(At(data, o))))

\* writeVarint taking the one-byte form up to and including 0xfd.
writeVarint_wideLiteral(data, n, o) ==
    LET m == n.mag
    IN  IF Cmp(m, FromInt(\Hfd)) <= 0
        THEN Wrote(Store(data, o, m[1] % 256), RetOff(o + 1))
        ELSE IF Cmp(m, FromInt(\Hffff)) <= 0
        THEN Wrote(StoreAll(data, o, << \Hfd, m[1] % 256, m[1] \div 256 >>),
                   RetOff(o + 3))
        ELSE IF Cmp(m, U32_MAX) <= 0
        THEN Wrote(StoreAll(data, o, << \Hfe >> \o BytesLE(<< m[1], m[2] >>)),
                   RetOff(o + 5))
        ELSE writeU64(Store(data, o, \Hff), n, o + 1)

\* num is a non-negative Number.
writeVarint(data, n, o) ==
    LET m == n.mag
    IN  IF Cmp(m, FromInt(\Hfd)) < 0
        THEN Wrote(Store(data, o, m[1] % 256), RetOff(o + 1))
        ELSE IF Cmp(m, FromInt(\Hffff)) <= 0
        THEN Wrote(StoreAll(data, o, << \Hfd, m[1] % 256, m[1] \div 256 >>),
                   RetOff(o + 3))
        ELSE IF Cmp(m, U32_MAX) <= 0
        THEN Wrote(StoreAll(data, o, << \Hfe >> \o BytesLE(<< m[1], m[2] >>)),
                   RetOff(o + 5))
        ELSE writeU64(Store(data, o, \Hff), n, o + 1)

sizeVarint(n) ==
    IF Cmp(n.mag, FromInt(\Hfd)) < 0 THEN 1
    ELSE IF Cmp(n.mag, FromInt(\Hffff)) <= 0 THEN 3
    ELSE IF Cmp(n.mag, U32_MAX) <= 0 THEN 5
    ELSE 9

\* n is a non-negative BN.
writeVarintBN(data, n, o) ==
    IF bitLength(n.mag) > 32
    THEN writeU64BN(Store(data, o, \Hff), n, o + 1)
    ELSE writeVarint(data, n, o)

readVarintBN(data, o) ==
    IF ~(o < Len(data)) THEN Fault
    ELSE IF At(data, o) = \Hff
    THEN IF ~(o + 9 <= Len(data)) THEN Fault
         ELSE LET value == readU64BN(data, o + 1)
              IN  IF ~(bitLength(value.mag) > 32) THEN Fault
                  ELSE Varint(9, value)
    ELSE readVarint(data, o)

----------------------------------------------------------------------------
(* Varint-B, the continuation-bit encoding, native. *)

RECURSIVE readVarint2Loop(_, _, _, _)
\* One turn of the for (;;) of readVarint2, with num = n and size bytes read.
readVarint2Loop(data, o, n, size) ==
    IF ~(o < Len(data)) THEN Fault
    ELSE IF ~(Cmp(n, VARINT2_LIMIT) < 0) THEN Fault
    ELSE LET ch == At(data, o)
             n1 == Shl7Add(n, ch % 128)
         IN  IF ch \div 128 = 0 THEN Varint(size + 1, Pos(n1))
             ELSE readVarint2Loop(data, o + 1, AddSmall(n1, 1), size + 1)

readVarint2(data, o) == readVarint2Loop(data, o, Zero, 0)

RECURSIVE Digits2_plain(_, _)
\* The digits of plain base 128: the `- 1` of each turn left out.
Digits2_plain(m, len) ==
    << Low7(m) + (IF len # 0 THEN \H80 ELSE 0) >>
    \o (IF Cmp(m, FromInt(\H7f)) <= 0 THEN <<>>
        ELSE Digits2_plain(Shr7(m), len + 1))

RECURSIVE Digits2(_, _)
\* tmp[len], tmp[len + 1], ... of writeVarint2, from num = m.
Digits2(m, len) ==
    << Low7(m) + (IF len # 0 THEN \H80 ELSE 0) >>
    \o (IF Cmp(m, FromInt(\H7f)) <= 0 THEN <<>>
        ELSE Digits2(SubSmall(Shr7(m), 1), len + 1))

RECURSIVE Reverse(_)
Reverse(s) == IF s = <<>> THEN <<>> ELSE Reverse(Tail(s)) \o << Head(s) >>

\* o = Undefined: off + len is NaN, and the assertion NaN <= dst.length fails.
writeVarint2(data, n, o) ==
    LET tmp == Digits2(n.mag, 0)
        len == Len(tmp) - 1
    IN  IF o = Undefined \/ ~(o + len <= Len(data)) THEN Wrote(data, Fault)
        ELSE Wrote(StoreAll(data, o, Reverse(tmp)), RetOff(o + len + 1))

RECURSIVE sizeVarint2Loop(_, _)
sizeVarint2Loop(m, size) ==
    IF Cmp(m, FromInt(\H7f)) <= 0 THEN size + 1
    ELSE sizeVarint2Loop(SubSmall(Shr7(m), 1), size + 1)

sizeVarint2(n) == sizeVarint2Loop(n.mag, 0)

----------------------------------------------------------------------------
(* Varint-B, bn.js. *)

RECURSIVE readVarint2BNLoop2(_, _, _, _)
\* One turn of the second loop of readVarint2BN (num is a BN).
readVarint2BNLoop2(data, o, n, size) ==
    IF ~(o < Len(data)) THEN Fault
    ELSE IF ~(bitLength(n) <= 64) THEN Fault
    ELSE LET ch == At(data, o)
             n1 == Shl7Add(n, ch % 128)
         IN  IF ch \div 128 = 0 THEN Varint(size + 1, Pos(n1))
             ELSE readVarint2BNLoop2(data, o + 1, AddSmall(n1, 1), size + 1)

RECURSIVE readVarint2BNLoop1(_, _, _, _)
\* One turn of the first loop of readVarint2BN (num is a Number).
readVarint2BNLoop1(data, o, n, size) ==
    IF ~(Cmp(n, VARINT2_LIMIT) < 0) THEN readVarint2BNLoop2(data, o, n, size)
    ELSE IF ~(o < Len(data)) THEN Fault
    ELSE LET ch == At(data, o)
             n1 == Shl7Add(n, ch % 128)
         IN  IF ch \div 128 = 0 THEN Varint(size + 1, Pos(n1))
             ELSE readVarint2BNLoop1(data, o + 1, AddSmall(n1, 1), size + 1)

readVarint2BN(data, o) == readVarint2BNLoop1(data, o, Zero, 0)

\* A bn.js writer's outcome: the buffer, the return value, and the value the
\* caller's BN object holds afterwards.
WroteBN(data, r, n) == [dst |-> data, ret |-> r, num |-> n]

RECURSIVE Top2(_)
\* What num holds when the digit loop of writeVarint2BN ends: each turn does
\* num.iushrn(7).isubn(1) on the object itself.
Top2(m) == IF Cmp(m, FromInt(\H7f)) <= 0 THEN m ELSE Top2(SubSmall(Shr7(m), 1))

\* n is a non-negative BN.
writeVarint2BN(data, n, o) ==
    IF bitLength(n.mag) <= 53
    THEN LET w == writeVarint2(data, n, Undefined)
         IN  WroteBN(w.dst, w.ret, n)
    ELSE LET tmp == Digits2(n.mag, 0)
             len == Len(tmp) - 1
             after == Pos(Top2(n.mag))
         IN  IF ~(o + len <= Len(data)) THEN WroteBN(data, Fault, after)
             ELSE WroteBN(StoreAll(data, o, Reverse(tmp)), RetOff(o + len + 1), after)

\* n is a non-negative BN; above 53 bits the loop runs on a clone.
sizeVarint2BN(n) ==
    IF bitLength(n.mag) <= 53 THEN sizeVarint(n)
    ELSE sizeVarint2Loop(n.mag, 0)

----------------------------------------------------------------------------
(* Inputs.  A caller allocates a buffer, picks a value and an offset, and    *)
(* makes one call or two: a writer first (if any), then a reader.            *)

Filled(len, b) == [i \in 1..len |-> b]

FillBytes == { \H00, \Hff }

Offsets == 0..MaxOff

Last(s) == s[Len(s)]

\* The bytes data[o], ..., data[o + n - 1].
Bytes(data, o, n) == SubSeq(data, o + 1, o + n)

\* A caller's fresh state.
Fresh(d, n, o) ==
    /\ dst = d
    /\ num = n
    /\ off = o
    /\ ret = NoRet
    /\ hist = <<>>

\* |n| <= 2^53 - 1
IsSafe(n) == Cmp(n.mag, MAX_SAFE_INTEGER) <= 0

----------------------------------------------------------------------------
(* Fixed64: the calls. *)

CallWrite(name, w) ==
    /\ hist = <<>>
    /\ dst' = w.dst
    /\ ret' = w.ret
    /\ hist' = << name >>
    /\ UNCHANGED << num, off >>

CallRead(name, r) ==
    /\ Len(hist) <= 1
    /\ ret' = r
    /\ hist' = Append(hist, name)
    /\ UNCHANGED << dst, num, off >>

WriteU64 == CallWrite("writeU64", writeU64(dst, num, off))

WriteU64BE == CallWrite("writeU64BE", writeU64BE(dst, num, off))

Write64 == CallWrite("write64", write64(dst, num, off))

Write64BE == CallWrite("write64BE", write64BE(dst, num, off))

ReadU64 == CallRead("readU64", readU64(dst, off))

ReadU64BE == CallRead("readU64BE", readU64BE(dst, off))

Read64 == CallRead("read64", read64(dst, off))

Read64BE == CallRead("read64BE", read64BE(dst, off))

WriteU64BN == CallWrite("writeU64BN", writeU64BN(dst, num, off))

WriteU64BEBN == CallWrite("writeU64BEBN", writeU64BEBN(dst, num, off))

Write64BN == CallWrite("write64BN", write64BN(dst, num, off))

Write64BEBN == CallWrite("write64BEBN", write64BEBN(dst, num, off))

\* Magnitudes around 0, 2^16, 2^32, 2^48, 2^53 and 2^64, and three above
\* 64 bits: of 65 bits (three bn.js words) and of 79 bits (four words), one
\* of these with its low 64 bits zero.
MagsF ==
    { FromLimbs(<< a, b, c, d >>) :
        a \in { 0, 1, \Hffff }, b \in { 0, 1, \Hffff }, c \in { 0, 1, \Hffff },
        d \in { 0, 1, \H1f, \H20, \Hffff } }
    \cup { FromLimbs(<< 1, 0, 0, \H8000, 1 >>), FromLimbs(<< 1, 0, 0, 0, \H4000 >>),
           FromLimbs(<< 0, 0, 0, 0, \H4000 >>) }

NumsF == { Pos(m) : m \in MagsF } \cup { Neg(m) : m \in MagsF \ { Zero } }

\* 8-byte windows whose top 16 bits sit on each side of the sign bit and of
\* the 53-bit limit, laid out in both byte orders.
WindowsF ==
    LET ws == { << << a, b >>, << c, d >> >> :
                  a \in { 0, 1, \Hffff }, b \in { 0, \Hffff }, c \in { 0, \Hffff },
                  d \in { 0, \H1f, \H20, \H7fff, \H8000, \Hffdf, \Hffe0, \Hffff } }
    IN  { BytesLE(w[1]) \o BytesLE(w[2]) : w \in ws }
        \cup { BytesBE(w[2]) \o BytesBE(w[1]) : w \in ws }

InitFixed64 ==
    \/ \E n \in NumsF, o \in Offsets, b \in FillBytes :
          Fresh(Filled(MaxOff + 8 + Slack, b), n, o)
    \/ \E w \in WindowsF, o \in Offsets, b \in FillBytes :
          Fresh(Filled(o, b) \o w \o Filled(Slack, b), Pos(Zero), o)

NextFixed64 ==
    \/ WriteU64
    \/ WriteU64BE
    \/ Write64
    \/ Write64BE
    \/ ReadU64
    \/ ReadU64BE
    \/ Read64
    \/ Read64BE
    \/ WriteU64BN
    \/ WriteU64BEBN
    \/ Write64BN
    \/ Write64BEBN

SpecFixed64 == InitFixed64 /\ [][NextFixed64]_vars

----------------------------------------------------------------------------
(* Fixed64: the claims. *)

Writers64 == { "writeU64", "writeU64BE", "write64", "write64BE" }

\* C4: a native 64-bit write of a safe integer returns off + 8, and the
\* matching read at the same offset returns the integer written: unsigned
\* (n >= 0) through writeU64 / readU64 and writeU64BE / readU64BE, signed
\* through write64 / read64 and write64BE / read64BE; write64 of -1 leaves
\* eight 0xff bytes.
C4_Fixed64RoundTrip ==
    /\ (Len(hist) = 1 /\ hist[1] \in Writers64 /\ IsSafe(num))
          => ret = RetOff(off + 8)
    /\ (hist = << "writeU64", "readU64" >> /\ ~num.neg /\ IsSafe(num))
          => ret = RetValue(num)
    /\ (hist = << "writeU64BE", "readU64BE" >> /\ ~num.neg /\ IsSafe(num))
          => ret = RetValue(num)
    /\ (hist = << "write64", "read64" >> /\ IsSafe(num))
          => ret = RetValue(num)
    /\ (hist = << "write64BE", "read64BE" >> /\ IsSafe(num))
          => ret = RetValue(num)
    /\ (hist = << "write64" >> /\ num = Neg(FromInt(1)))
          => Bytes(dst, off, 8) = Filled(8, \Hff)

\* write64BE of -(2^53 - 1) has been read back by read64BE.
C4_Witness ==
    /\ hist = << "write64BE", "read64BE" >>
    /\ num = Neg(MAX_SAFE_INTEGER)
    /\ ret = RetValue(num)

Readers64 == { "readU64", "readU64BE", "read64", "read64BE" }

\* C5: a native 64-bit read either throws or returns a value of magnitude at
\* most 2^53 - 1, and an unsigned read never returns a negative value.
C5_SafeRange ==
    (hist # <<>> /\ Last(hist) \in Readers64 /\ ~ret.fault)
        => /\ Cmp(ret.value.mag, MAX_SAFE_INTEGER) <= 0
           /\ Last(hist) \in { "readU64", "readU64BE" } => ~ret.value.neg

----------------------------------------------------------------------------
(* Varint-A: the calls. *)

WriteVarint == CallWrite("writeVarint", writeVarint(dst, num, off))

WriteVarintBN == CallWrite("writeVarintBN", writeVarintBN(dst, num, off))

ReadVarint == CallRead("readVarint", readVarint(dst, off))

ReadVarintBN == CallRead("readVarintBN", readVarintBN(dst, off))

\* Values on each side of the tier limits 0xfd, 0x10000, 2^32, of 2^53 and
\* up to 2^64 - 1.
NumsA ==
    { Pos(FromLimbs(<< a, b, c, d >>)) :
        a \in { 0, 1, \Hfc, \Hfd, \H12c, \Hffff }, b \in { 0, 1, \Hffff },
        c \in { 0, 1, \Hffff }, d \in { 0, \H1f, \H20, \Hffff } }

Tags == { \Hfc, \Hfd, \Hfe, \Hff }

\* 8-byte little-endian payloads on each side of 0xfd, 0x10000, 2^32, 2^53.
PayloadsA ==
    { BytesLE(<< a, b >>) \o BytesLE(<< c, d >>) :
        a \in { 0, \Hfc, \Hfd, \Hffff }, b \in { 0, 1 }, c \in { 0, 1 },
        d \in { 0, \H1f, \H20 } }

\* A tag, then the first k bytes of a payload, behind p bytes of padding.
EncodedA ==
    { Filled(p, b) \o << t >> \o SubSeq(pl, 1, k) :
        p \in Offsets, b \in { \H00, \Hfd }, t \in Tags, pl \in PayloadsA,
        k \in 0..8 }

InitVarintA ==
    \/ \E n \in NumsA, o \in Offsets, b \in FillBytes :
          Fresh(Filled(MaxOff + 9 + Slack, b), n, o)
    \/ \E d \in EncodedA, o \in Offsets : Fresh(d, Pos(Zero), o)

NextVarintA ==
    \/ WriteVarint
    \/ WriteVarintBN
    \/ ReadVarint
    \/ ReadVarintBN

SpecVarintA == InitVarintA /\ [][NextVarintA]_vars

----------------------------------------------------------------------------
(* Varint-A: the claims. *)

\* The bytes at o are a tag followed by its whole payload, and the payload
\* is a value a shorter form encodes.
NonMinimal(data, o) ==
    /\ o < Len(data)
    /\ \/ /\ At(data, o) = \Hfd
          /\ o + 3 <= Len(data)
          /\ At(data, o + 1) + 256 * At(data, o + 2) < \Hfd
       \/ /\ At(data, o) = \Hfe
          /\ o + 5 <= Len(data)
          /\ Bytes(data, o + 3, 2) = << 0, 0 >>
       \/ /\ At(data, o) = \Hff
          /\ o + 9 <= Len(data)
          /\ Bytes(data, o + 5, 4) = << 0, 0, 0, 0 >>

\* C1: readVarint and readVarintBN throw, and return nothing, on a 0xfd tag
\* with a payload below 0xfd, a 0xfe tag with a payload of at most 0xffff and
\* a 0xff tag with a payload of at most 0xffffffff.
C1_RejectsNonMinimal ==
    (hist # <<>> /\ Last(hist) \in { "readVarint", "readVarintBN" }
                 /\ NonMinimal(dst, off))
        => ret = Fault

\* readVarintBN has thrown on the bytes fe ff ff 00 00 (payload 0xffff).
C1_Witness ==
    /\ hist = << "readVarintBN" >>
    /\ off + 5 <= Len(dst)
    /\ Bytes(dst, off, 5) = << \Hfe, \Hff, \Hff, 0, 0 >>
    /\ ret = Fault

\* The buffer has room at off for the compact-size encoding of num.
RoomA == off + sizeVarint(num) <= Len(dst)

\* C2: for n in [0, 2^53 - 1] and a buffer with room at off, writeVarint
\* returns off + sizeVarint(n) and readVarint at the same offset then returns
\* size sizeVarint(n) and value n; 300 is written as fd 2c 01.
C2_VarintRoundTrip ==
    /\ (hist = << "writeVarint" >> /\ IsSafe(num) /\ RoomA)
          => ret = RetOff(off + sizeVarint(num))
    /\ (hist = << "writeVarint", "readVarint" >> /\ IsSafe(num) /\ RoomA)
          => ret = Varint(sizeVarint(num), num)
    /\ (hist = << "writeVarint" >> /\ num = Pos(FromInt(300)) /\ RoomA)
          => Bytes(dst, off, 3) = << \Hfd, \H2c, \H01 >>

\* 0x100000000, the smallest value of the 9-byte tier, has been written and
\* read back.
C2_Witness ==
    /\ hist = << "writeVarint", "readVarint" >>
    /\ num = Pos(FromLimbs(<< 0, 0, 1 >>))
    /\ ret = Varint(9, num)

----------------------------------------------------------------------------
(* Varint-B, native: the calls. *)

WriteVarint2 == CallWrite("writeVarint2", writeVarint2(dst, num, off))

ReadVarint2 == CallRead("readVarint2", readVarint2(dst, off))

\* Every value within Window of the ends of the 1-, 2- and 3-byte classes
\* (0..127, 128..16511, 16512..2113663) and of 10^6, and one value in every
\* Stride up to Samples * Stride.
IntsB ==
    (0..Window) \cup ((127 - Window)..(128 + Window))
    \cup ((16511 - Window)..(16512 + Window))
    \cup ((1000000 - Window)..(1000000 + Window))
    \cup ((2113663 - Window)..(2113664 + Window))
    \cup { k * Stride : k \in 0..Samples }

NumsB ==
    { Pos(FromInt(i)) : i \in IntsB }
    \cup { Pos(MAX_SAFE_INTEGER), Pos(VARINT2_LIMIT), Pos(U32_MAX) }

InitVarintB ==
    \E n \in NumsB, o \in Offsets, b \in FillBytes, len \in 0..(MaxOff + 8 + Slack) :
        Fresh(Filled(len, b), n, o)

NextVarintB ==
    \/ WriteVarint2
    \/ ReadVarint2

SpecVarintB == InitVarintB /\ [][NextVarintB]_vars

----------------------------------------------------------------------------
(* Varint-B, native: the claims. *)

\* The buffer has room at off for the continuation-bit encoding of num.
RoomB == off + sizeVarint2(num) <= Len(dst)

\* C3: for n in [0, 10^6] and a buffer with room at off, readVarint2 after
\* writeVarint2 at the same offset returns value n and size sizeVarint2(n).
C3_Varint2RoundTrip ==
    (hist = << "writeVarint2", "readVarint2" >> /\ RoomB
       /\ Cmp(num.mag, FromInt(1000000)) <= 0)
        => ret = Varint(sizeVarint2(num), num)

\* 16512, the smallest value of three bytes, has been written at the end of
\* a buffer and read back.
C3_Witness ==
    /\ hist = << "writeVarint2", "readVarint2" >>
    /\ num = Pos(FromInt(16512))
    /\ off + 3 = Len(dst)
    /\ ret = Varint(3, num)

\* C9: writeVarint2 throws whenever the encoding of n does not fit inside
\* dst from off on (off + sizeVarint2(n) > dst.length).
C9_WriteVarint2BoundsChecked ==
    (hist = << "writeVarint2" >> /\ ~RoomB) => ret.fault

----------------------------------------------------------------------------
(* Varint-B, bn.js encoders: the calls. *)

\* The writer works on the caller's BN object: what it leaves in it is what
\* the caller holds afterwards.
WriteVarint2BN ==
    LET w == writeVarint2BN(dst, num, off)
    IN  /\ hist = <<>>
        /\ dst' = w.dst
        /\ ret' = w.ret
        /\ num' = w.num
        /\ hist' = << "writeVarint2BN" >>
        /\ UNCHANGED off

SizeVarint2BN ==
    CallRead("sizeVarint2BN", RetValue(Pos(FromInt(sizeVarint2BN(num)))))

\* Small values, and values on each side of 2^53 and up to 2^64 - 1.
NumsBN ==
    { Pos(FromInt(i)) :
        i \in { 0, 1, 127, 128, 252, 253, 16511, 16512, 65535, 65536 } }
    \cup { Pos(FromLimbs(<< a, b, c, d >>)) :
             a \in { 0, \H7f, \H80 }, b \in { 0, \Hffff }, c \in { 0, \Hffff },
             d \in { \H1f, \H20, \Hffff } }

InitVarintBBN ==
    \E n \in NumsBN, o \in Offsets, b \in FillBytes, len \in 0..(MaxOff + 10 + Slack) :
        Fresh(Filled(len, b), n, o)

NextVarintBBN ==
    \/ WriteVarint2BN
    \/ SizeVarint2BN

SpecVarintBBN == InitVarintBBN /\ [][NextVarintBBN]_vars

----------------------------------------------------------------------------
(* Varint-B, bn.js encoders: the claims. *)

\* C6: for a non-negative BN of at most 53 bits sizeVarint2BN returns what
\* sizeVarint2 returns for the same value (2 for 128).
C6_SizeVarint2BNAgrees ==
    (hist = << "sizeVarint2BN" >> /\ bitLength(num.mag) <= 53)
        => ret = RetValue(Pos(FromInt(sizeVarint2(num))))

\* C7: for a non-negative BN of at most 53 bits and a buffer with room at
\* off, writeVarint2BN does not throw, leaves in dst what writeVarint2 of the
\* same value at off leaves, and returns off + sizeVarint2(n).
C7_WriteVarint2BNAgrees ==
    [][ (hist' = << "writeVarint2BN" >> /\ bitLength(num.mag) <= 53 /\ RoomB)
          => /\ ~ret'.fault
             /\ dst' = writeVarint2(dst, num, off).dst
             /\ ret' = RetOff(off + sizeVarint2(num)) ]_vars

\* C10: a call of writeVarint2BN or sizeVarint2BN that returns leaves the
\* caller's BN as it was, and a write changes no byte of dst outside
\* off .. returned offset.
C10_ValueArgumentUntouched ==
    [][ (hist' # hist /\ ~ret'.fault)
          => /\ num' = num
             /\ (hist' = << "writeVarint2BN" >>)
                   => \A i \in 1..Len(dst) :
                          (i <= off \/ i > ret'.off) => dst'[i] = dst[i] ]_vars

----------------------------------------------------------------------------
(* Varint-B decoders on arbitrary bytes: the calls and the claim. *)

ReadVarint2BN == CallRead("readVarint2BN", readVarint2BN(dst, off))

\* Up to MaxBytes bytes: a first byte, a run of equal continuation bytes, and
\* a final byte (or none: a truncated encoding).
EncodedB ==
    { h \o Filled(k, c) \o t :
        h \in { <<>>, << \H80 >>, << \H8f >>, << \Hff >> },
        c \in { \H80, \Hff }, k \in 0..(MaxBytes - 2),
        t \in { <<>>, << \H00 >>, << \H7f >> } }

InitDecodeB == \E d \in EncodedB, o \in Offsets : Fresh(d, Pos(Zero), o)

NextDecodeB ==
    \/ ReadVarint2
    \/ ReadVarint2BN

SpecDecodeB == InitDecodeB /\ [][NextDecodeB]_vars

\* C8: readVarint2BN either throws or returns a value of at most 2^64 - 1.
C8_Ceiling64 ==
    (hist # <<>> /\ Last(hist) = "readVarint2BN" /\ ~ret.fault)
        => Cmp(ret.value.mag, U64_MAX) <= 0

====
